---------------------------- MODULE Spec2Model ----------------------------
(***************************************************************************)
(* KTU result proxy (server/server.js): fetchResultForRoll behind the      *)
(* p-limit concurrency limiter, the NodeCache lookup/write, the            *)
(* fetchWithRetries retry loop and the optional Playwright fallback.       *)
(*                                                                         *)
(* One request is one invocation of fetchResultForRoll.  Its steps are the *)
(* turns of the event loop in which it runs: the arrival (cache lookup and *)
(* limit(...) call), the settlement of each axios.get, the end of each     *)
(* backoff sleep and the settlement of playwrightFetch.  A turn in which   *)
(* the limited function returns also runs p-limit's next() and resolves    *)
(* the caller's promise.                                                   *)
(***************************************************************************)
EXTENDS Integers, Sequences, FiniteSets, TLC

\* ------------------------------------------------------------------ bounds
NumReq == 3            \* invocations of fetchResultForRoll in one behaviour
MaxRetriesBound == 2   \* MAX_RETRIES ranges over 0..MaxRetriesBound
RandomSteps == 1000    \* Math.random() ranges over k/RandomSteps, k < RandomSteps

Reqs == 1..NumReq
Concurrencies == {1, 2}         \* the values of MAX_CONCURRENT looked at

\* ------------------------------------------------------------- value space
undefined == "<undefined>"      \* the JavaScript value undefined
Rolls == {"R1", "R2"}           \* non-empty, trimmed roll numbers
Bodies == {"", "<html>"}        \* resp.data of a 2xx answer (may be empty)
PwBodies == {"<rendered>"}      \* page.content() of the headless browser
UpstreamHeaders == {"content-type"}
JitterSpan == 200               \* the factor of Math.random() in line 73
BackoffBases == {1, 300, 1000}  \* the values of BACKOFF_BASE looked at
NoResponse == 0                 \* err.response is undefined

\* errors axios.get rejects with: response is the HTTP status of err.response
\* (NoResponse when there is none); network tells a network-level failure
\* (timeout, connection reset) from an error raised before anything was sent
AxiosErrors ==
    { [response |-> 404, network |-> FALSE, message |-> "Request failed with status code 404"],
      [response |-> 503, network |-> FALSE, message |-> "Request failed with status code 503"],
      [response |-> NoResponse, network |-> TRUE, message |-> "timeout of 8000ms exceeded"],
      [response |-> NoResponse, network |-> FALSE, message |-> "Invalid URL"] }
NoError == [response |-> NoResponse, network |-> FALSE, message |-> undefined]

VARIABLES
    MAX_CONCURRENT,       \* configuration read at start-up
    MAX_RETRIES,
    PLAYWRIGHT_FALLBACK,
    cache,                \* NodeCache: cache key -> stored value or undefined
    activeCount,          \* p-limit: functions running
    queue,                \* p-limit: functions waiting, in arrival order
    arrived,              \* invocations of fetchResultForRoll so far
    pc,                   \* where each invocation stands
    roll,                 \* its argument
    attempt,              \* fetchWithRetries' local counter
    err,                  \* the error bound by the catch block it is in
    calls,                \* axios.get calls it has issued (observer)
    delivered             \* observer of the step leading to this state: the
                          \* invocation whose promise it resolved (req), its
                          \* roll, the path taken (via), the axios.get calls
                          \* it had issued, the error its direct fetch ended
                          \* with, what playwrightFetch settled with (pw)
                          \* the value resolved and the cache entry of its
                          \* key before the step (prev); Nothing otherwise
    , sleep               \* the wait fetchWithRetries computed before a retry,
                          \* with the inputs it came from
    , cancelled           \* requests whose client has closed the connection
    , lastWrite           \* observer: per cache key, the value of the latest
                          \* cache.set since the entry last expired

vars == <<MAX_CONCURRENT, MAX_RETRIES, PLAYWRIGHT_FALLBACK, cache, activeCount,
          queue, arrived, pc, roll, attempt, err, calls, delivered, sleep,
          cancelled, lastWrite>>
config == <<MAX_CONCURRENT, MAX_RETRIES, PLAYWRIGHT_FALLBACK>>

\* ------------------------------------------------------------ pure helpers
cacheKeyOf(r) == "ktu:roll:" \o r
CacheKeys == {cacheKeyOf(r) : r \in Rolls}

\* JavaScript truthiness of a cached value: undefined and "" are falsy
truthy(v) == v # undefined /\ v # ""

cacheSet_keepFirst(c, key, value) ==
    IF c[key] # undefined THEN c ELSE [c EXCEPT ![key] = value]

\* cache.set(key, value)
cacheSet(c, key, value) == [c EXCEPT ![key] = value]

NoPwOutcome == [ok |-> FALSE, data |-> undefined, headers |-> {}, error |-> NoError]
NoResult == [ok |-> FALSE, fromCache |-> FALSE, data |-> undefined,
             headers |-> {}, error |-> undefined]
CacheHit(cached) == [ok |-> TRUE, fromCache |-> TRUE, data |-> cached,
                     headers |-> {}, error |-> undefined]
Success(resp) == [ok |-> TRUE, fromCache |-> FALSE, data |-> resp.data,
                  headers |-> resp.headers, error |-> undefined]
Failure(e) == [ok |-> FALSE, fromCache |-> FALSE, data |-> undefined,
               headers |-> {}, error |-> e.message]

Nothing == [req |-> 0, roll |-> undefined, via |-> "none", calls |-> 0,
            err |-> NoError, pw |-> NoPwOutcome, result |-> NoResult,
            prev |-> undefined]

isGateway_anyError(e) == e.response = NoResponse \/ e.response >= 400

\* line 66: const isGateway = !err.response || [502, 503, 504].includes(status)
isGateway(e) == e.response = NoResponse \/ e.response \in {502, 503, 504}

finalFail_offByOne(e, att, maxRetries) == ~isGateway(e) \/ att >= maxRetries

\* line 67: the error is final
finalFail(e, att, maxRetries) == ~isGateway(e) \/ att > maxRetries

hasSlot_offByOne(active, concurrency) == active <= concurrency

hasSlot_reserveOne(active, concurrency) == active < concurrency - 1

\* p-limit: a queued function may start
hasSlot(active, concurrency) == active < concurrency

nextCount_onSuccessOnly(active, res) == IF res.ok THEN active - 1 ELSE active

\* p-limit next(), run when the limited function has settled with res
\* (resolved or rejected alike): the count of running functions
nextCount(active, res) == active - 1

\* Math.round of the non-negative rational num/den
MathRound(num, den) == (2 * num + den) \div (2 * den)

backoffOf_fromAttempt(base, n) == MathRound(base * 2^n, 1)

\* line 72: Math.round(BACKOFF_BASE * Math.pow(2, attempt - 1))
backoffOf(base, n) == MathRound(base * 2^(n - 1), 1)

\* line 73: Math.round(Math.random() * 200), Math.random() being one of the
\* fractions k/RandomSteps of [0, 1)
jitterOf(k) == MathRound(k * JitterSpan, RandomSteps)

\* line 74
waitOf(base, n, k) == backoffOf(base, n) + jitterOf(k)

NoSleep == [base |-> 0, attempt |-> 0, random |-> 0, wait |-> 0]

PlaywrightHeaders == {"x-playwright-fallback"}
PwLaunchError == [response |-> NoResponse, network |-> FALSE, message |-> "browserType.launch: failed"]
PwGotoError == [response |-> NoResponse, network |-> FALSE, message |-> "page.goto: Timeout exceeded"]
PwCloseError == [response |-> NoResponse, network |-> FALSE, message |-> "browser.close: failed"]

TypeOK ==
    /\ MAX_CONCURRENT \in Concurrencies
    /\ MAX_RETRIES \in 0..MaxRetriesBound
    /\ PLAYWRIGHT_FALLBACK \in BOOLEAN
    /\ cache \in [CacheKeys -> Bodies \cup PwBodies \cup {undefined}]
    /\ activeCount \in 0..NumReq
    /\ arrived \in 0..NumReq
    /\ queue \in Seq(Reqs)
    /\ pc \in [Reqs -> {"idle", "queued", "primary", "backoff", "fallback", "done"}]
    /\ roll \in [Reqs -> Rolls \cup {undefined}]
    /\ attempt \in [Reqs -> 0..MaxRetriesBound]
    /\ err \in [Reqs -> AxiosErrors \cup {NoError}]
    /\ calls \in [Reqs -> 0..(MaxRetriesBound + 1)]
    /\ delivered.req \in 0..NumReq
    /\ delivered.via \in {"none", "cache", "direct", "fallback"}
    /\ sleep.attempt \in 0..MaxRetriesBound
    /\ sleep.wait \in Nat
    /\ cancelled \subseteq Reqs
    /\ lastWrite \in [CacheKeys -> Bodies \cup PwBodies \cup {undefined}]

Init ==
    /\ MAX_CONCURRENT \in Concurrencies
    /\ MAX_RETRIES \in 0..MaxRetriesBound
    /\ PLAYWRIGHT_FALLBACK \in BOOLEAN
    /\ cache = [k \in CacheKeys |-> undefined]
    /\ activeCount = 0
    /\ queue = <<>>
    /\ arrived = 0
    /\ pc = [r \in Reqs |-> "idle"]
    /\ roll = [r \in Reqs |-> undefined]
    /\ attempt = [r \in Reqs |-> 0]
    /\ err = [r \in Reqs |-> NoError]
    /\ calls = [r \in Reqs |-> 0]
    /\ delivered = Nothing
    /\ sleep = NoSleep
    /\ cancelled = {}
    /\ lastWrite = [k \in CacheKeys |-> undefined]

dequeue_last(q) == [run |-> q[Len(q)], rest |-> SubSeq(q, 1, Len(q) - 1)]

\* p-limit: the queue gives up its oldest entry
dequeue(q) == [run |-> Head(q), rest |-> Tail(q)]

started_recheck(c, key) ==
    IF truthy(c[key]) THEN [pc |-> "done", calls |-> 0]
                      ELSE [pc |-> "primary", calls |-> 1]

\* the limited function of lines 105-107 has been started for the key: it
\* calls fetchWithRetries, which issues its first axios.get, whatever the
\* cache c holds by now
started(c, key) == [pc |-> "primary", calls |-> 1]

\* p-limit: start the function at the head of the queue q when a slot is
\* free.  Yields the limiter's and the started request's state.
StartNext(active, q, pcs, cls, c, rolls) ==
    IF Len(q) > 0 /\ hasSlot(active, MAX_CONCURRENT)
    THEN LET d == dequeue(q)
             st == started(c, cacheKeyOf(rolls[d.run]))
         IN [active |-> active + 1, queue |-> d.rest,
             pc |-> [pcs EXCEPT ![d.run] = st.pc],
             calls |-> [cls EXCEPT ![d.run] = st.calls]]
    ELSE [active |-> active, queue |-> q, pc |-> pcs, calls |-> cls]

\* fetchResultForRoll(k), lines 97-105: cache lookup, then limit(...)
Request(k) ==
    /\ arrived < NumReq
    /\ LET r == arrived + 1
           cached == cache[cacheKeyOf(k)]
       IN /\ arrived' = r
          /\ IF truthy(cached)
             THEN /\ pc' = [pc EXCEPT ![r] = "done"]
                  /\ delivered' = [req |-> r, roll |-> k, via |-> "cache", calls |-> 0,
                                    err |-> NoError, pw |-> NoPwOutcome,
                                    result |-> CacheHit(cached), prev |-> cached]
                  /\ UNCHANGED <<roll, activeCount, queue, calls>>
             ELSE LET s == StartNext(activeCount, Append(queue, r),
                                     [pc EXCEPT ![r] = "queued"], calls,
                                     cache, [roll EXCEPT ![r] = k])
                  IN /\ roll' = [roll EXCEPT ![r] = k]
                     /\ activeCount' = s.active
                     /\ queue' = s.queue
                     /\ pc' = s.pc
                     /\ calls' = s.calls
                     /\ delivered' = Nothing
    /\ UNCHANGED <<config, cache, attempt, err, sleep, cancelled, lastWrite>>

directSuccess_noWrite(c, key, resp) ==
    [cache |-> c, result |-> Success(resp)]

\* fetchResultForRoll lines 107-110: the direct fetch answered
directSuccess(c, key, resp) ==
    [cache |-> cacheSet(c, key, resp.data), result |-> Success(resp)]

directFailure_alwaysFallback(c, key, e, fallback) ==
    [cache |-> c, pc |-> "fallback", result |-> NoResult]

directFailure_cached(c, key, e, fallback) ==
    IF fallback
    THEN [cache |-> c, pc |-> "fallback", result |-> NoResult]
    ELSE [cache |-> cacheSet(c, key, e.message), pc |-> "done", result |-> Failure(e)]

\* fetchResultForRoll lines 111-125: the direct fetch threw e.  Either the
\* fallback is started (the result is still open) or the failure is returned
directFailure(c, key, e, fallback) ==
    IF fallback
    THEN [cache |-> c, pc |-> "fallback", result |-> NoResult]
    ELSE [cache |-> c, pc |-> "done", result |-> Failure(e)]

\* playwrightFetch did not run / rejected with e
PwRejected(e) == [ok |-> FALSE, data |-> undefined, headers |-> {}, error |-> e]

\* playwrightFetch, lines 82-94: require and launch, then newPage, goto and
\* content inside try, browser.close() in finally (a rejected close replaces
\* the outcome)
playwrightFetch(launchOk, pageOk, closeOk, html) ==
    IF ~launchOk
    THEN PwRejected(PwLaunchError)
    ELSE IF ~closeOk
    THEN PwRejected(PwCloseError)
    ELSE IF ~pageOk
    THEN PwRejected(PwGotoError)
    ELSE [ok |-> TRUE, data |-> html, headers |-> PlaywrightHeaders, error |-> NoError]

\* what playwrightFetch can settle with
PlaywrightOutcomes ==
    {playwrightFetch(l, p, c, html) : l \in BOOLEAN, p \in BOOLEAN, c \in BOOLEAN,
                                      html \in PwBodies}

fallbackSettled_rethrow(c, key, pw) ==
    IF pw.ok
    THEN [cache |-> cacheSet(c, key, pw.data), result |-> Success(pw)]
    ELSE [cache |-> c, result |-> NoResult]

fallbackSettled_genericError(c, key, pw) ==
    IF pw.ok
    THEN [cache |-> cacheSet(c, key, pw.data), result |-> Success(pw)]
    ELSE [cache |-> c, result |-> Failure([message |-> "failed to fetch"])]

fallbackSettled_unmarked(c, key, pw) ==
    IF pw.ok
    THEN [cache |-> cacheSet(c, key, pw.data),
          result |-> Success([data |-> pw.data, headers |-> {}])]
    ELSE [cache |-> c, result |-> Failure(pw.error)]

\* fetchResultForRoll lines 116-121: the fallback settled with outcome pw
fallbackSettled(c, key, pw) ==
    IF pw.ok
    THEN [cache |-> cacheSet(c, key, pw.data), result |-> Success(pw)]
    ELSE [cache |-> c, result |-> Failure(pw.error)]

\* The limited function of request r returned res (lines 110, 118, 121,
\* 124): its locals are gone, p-limit's next() gives the slot back and starts
\* the head of the queue, if any, and the promise fetchResultForRoll returned
\* is resolved with res.  All of it runs in the microtasks of one turn of the
\* event loop.
Return(r, res, via, e, pw) ==
    /\ delivered' = [req |-> r, roll |-> roll[r], via |-> via, calls |-> calls[r],
                      err |-> e, pw |-> pw, result |-> res,
                      prev |-> cache[cacheKeyOf(roll[r])]]
    /\ roll' = [roll EXCEPT ![r] = undefined]
    /\ attempt' = [attempt EXCEPT ![r] = 0]
    /\ err' = [err EXCEPT ![r] = NoError]
    /\ LET a == nextCount(activeCount, res)
           settled == [pc EXCEPT ![r] = "done"]
           cls == [calls EXCEPT ![r] = 0]
       IN IF Len(queue) > 0
          THEN LET d == dequeue(queue)
                   st == started(cache', cacheKeyOf(roll[d.run]))
               IN /\ activeCount' = a + 1
                  /\ queue' = d.rest
                  /\ pc' = [settled EXCEPT ![d.run] = st.pc]
                  /\ calls' = [cls EXCEPT ![d.run] = st.calls]
          ELSE /\ activeCount' = a
               /\ queue' = queue
               /\ pc' = settled
               /\ calls' = cls

\* axios.get resolved with a 2xx answer: fetchWithRetries returns it (line
\* 62) and fetchResultForRoll stores and returns it (lines 109-110)
AxiosResolve(r, data) ==
    /\ pc[r] = "primary"
    /\ LET resp == [data |-> data, headers |-> UpstreamHeaders]
           out == directSuccess(cache, cacheKeyOf(roll[r]), resp)
       IN /\ cache' = out.cache
          /\ lastWrite' = [lastWrite EXCEPT ![cacheKeyOf(roll[r])] = resp.data]
          /\ Return(r, out.result, "direct", NoError, NoPwOutcome)
    /\ UNCHANGED <<config, arrived, sleep, cancelled>>

\* axios.get rejected with e: the catch block of fetchWithRetries, lines
\* 63-76, and, when it rethrows, the catch block of fetchResultForRoll,
\* lines 111-125
AxiosReject(r, e) ==
    /\ pc[r] = "primary"
    /\ IF finalFail(e, attempt[r] + 1, MAX_RETRIES)
       THEN LET out == directFailure(cache, cacheKeyOf(roll[r]), e, PLAYWRIGHT_FALLBACK)
            IN /\ cache' = out.cache
               /\ IF out.pc = "fallback"
                  THEN /\ pc' = [pc EXCEPT ![r] = "fallback"]
                       /\ err' = [err EXCEPT ![r] = e]
                       /\ attempt' = [attempt EXCEPT ![r] = 0]
                       /\ delivered' = Nothing
                       /\ UNCHANGED <<roll, calls, activeCount, queue>>
                  ELSE Return(r, out.result, "direct", e, NoPwOutcome)
       ELSE /\ pc' = [pc EXCEPT ![r] = "backoff"]
            /\ err' = [err EXCEPT ![r] = e]
            /\ attempt' = [attempt EXCEPT ![r] = attempt[r] + 1]
            /\ delivered' = Nothing
            /\ UNCHANGED <<cache, roll, calls, activeCount, queue>>
    /\ UNCHANGED <<config, arrived, sleep, cancelled, lastWrite>>

\* the sleep of line 76 ended: the loop issues the next axios.get
SleepDone(r) ==
    /\ pc[r] = "backoff"
    /\ pc' = [pc EXCEPT ![r] = "primary"]
    /\ err' = [err EXCEPT ![r] = NoError]
    /\ calls' = [calls EXCEPT ![r] = calls[r] + 1]
    /\ delivered' = Nothing
    /\ UNCHANGED <<config, cache, activeCount, queue, arrived, roll, attempt, sleep,
                   cancelled, lastWrite>>

\* playwrightFetch settled
PlaywrightSettle(r, pw) ==
    /\ pc[r] = "fallback"
    /\ LET out == fallbackSettled(cache, cacheKeyOf(roll[r]), pw)
       IN /\ cache' = out.cache
          /\ lastWrite' = IF pw.ok
                          THEN [lastWrite EXCEPT ![cacheKeyOf(roll[r])] = pw.data]
                          ELSE lastWrite
          /\ Return(r, out.result, "fallback", err[r], pw)
    /\ UNCHANGED <<config, arrived, sleep, cancelled>>

\* NodeCache: the entry's TTL (stdTTL: CACHE_TTL) ran out
Expire(key) ==
    /\ cache[key] # undefined
    /\ cache' = [cache EXCEPT ![key] = undefined]
    /\ lastWrite' = [lastWrite EXCEPT ![key] = undefined]
    /\ delivered' = Nothing
    /\ UNCHANGED <<config, activeCount, queue, arrived, pc, roll, attempt, err, calls,
                   sleep, cancelled>>

Next ==
    \/ \E k \in Rolls : Request(k)
    \/ \E r \in Reqs, data \in Bodies : AxiosResolve(r, data)
    \/ \E r \in Reqs, e \in AxiosErrors : AxiosReject(r, e)
    \/ \E r \in Reqs : SleepDone(r)
    \/ \E r \in Reqs, pw \in PlaywrightOutcomes : PlaywrightSettle(r, pw)
    \/ \E key \in CacheKeys : Expire(key)

Spec == Init /\ [][Next]_vars

\* Scheduling: every axios.get settles (it resolves, or rejects at the latest
\* when the timeout of line 57 runs out), every timer of sleep fires, and
\* every playwrightFetch settles (page.goto has the timeout of line 88).
\* Arrivals and expiries are under no obligation.
Fairness ==
    \A r \in Reqs :
       /\ WF_vars((\E data \in Bodies : AxiosResolve(r, data))
                    \/ (\E e \in AxiosErrors : AxiosReject(r, e)))
       /\ WF_vars(SleepDone(r))
       /\ WF_vars(\E pw \in PlaywrightOutcomes : PlaywrightSettle(r, pw))

FairSpec == Spec /\ Fairness

\* fetchWithRetries lines 71-74 on their own: the wait before retry n with
\* BACKOFF_BASE = base and Math.random() = k/RandomSteps
Backoff(base, n, k) ==
    /\ sleep = NoSleep
    /\ sleep' = [base |-> base, attempt |-> n, random |-> k, wait |-> waitOf(base, n, k)]
    /\ UNCHANGED <<config, cache, activeCount, queue, arrived, pc, roll, attempt, err,
                   calls, delivered, cancelled, lastWrite>>

BackoffNext ==
    \E base \in BackoffBases, n \in 1..MAX_RETRIES, k \in 0..(RandomSteps - 1) :
        Backoff(base, n, k)

BackoffSpec == Init /\ [][BackoffNext]_vars

\* the client of request r closes the connection while fetchResultForRoll
\* is pending: the handler of lines 131-151 has no listener for it and
\* passes no signal down, so nothing but the socket changes
ClientDisconnect(r) ==
    /\ pc[r] \in {"queued", "primary", "backoff", "fallback"}
    /\ r \notin cancelled
    /\ cancelled' = cancelled \cup {r}
    /\ delivered' = Nothing
    /\ UNCHANGED <<config, cache, activeCount, queue, arrived, pc, roll, attempt, err,
                   calls, sleep, lastWrite>>

CancelNext ==
    \/ Next
    \/ \E r \in Reqs : ClientDisconnect(r)

CancelSpec == Init /\ [][CancelNext]_vars

\* ------------------------------------------------------------------ claims
\* requests inside the admission gate: running the primary retry sequence,
\* sleeping in a backoff wait, or running the fallback
Inside == {r \in Reqs : pc[r] \in {"primary", "backoff", "fallback"}}
Queued == {r \in Reqs : pc[r] = "queued"}

\* C1: at most MAX_CONCURRENT requests are inside the admission gate; every
\* request inside has started fetching; a request waits in the queue only
\* while all MAX_CONCURRENT slots are taken, and while it waits it has made
\* no upstream attempt.
C1_AdmissionBound ==
    /\ Cardinality(Inside) <= MAX_CONCURRENT
    /\ \A r \in Inside : calls[r] >= 1
    /\ \A r \in Queued : calls[r] = 0 /\ Cardinality(Inside) = MAX_CONCURRENT

\* N+1 cache-miss requests are in progress at once: N fetch, one waits
C1_Witness ==
    /\ MAX_CONCURRENT = 2
    /\ arrived = MAX_CONCURRENT + 1
    /\ Cardinality(Inside) = MAX_CONCURRENT
    /\ Cardinality(Queued) = 1
    /\ \A r \in Inside : pc[r] = "primary" /\ calls[r] = 1

\* C2: the permits held are exactly those of the requests inside the gate
\* (each acquired permit is given back once, on success and on failure
\* alike); so when no request is inside, all slots are free and nobody
\* waits.
C2_PermitsReleased ==
    /\ activeCount = Cardinality(Inside)
    /\ (Inside = {} => activeCount = 0 /\ queue = <<>>)

\* a request has just failed and nothing is in flight: all slots are free
C2_Witness ==
    /\ delivered.req # 0
    /\ ~delivered.result.ok
    /\ arrived = NumReq
    /\ \A r \in Reqs : pc[r] = "done"
    /\ activeCount = 0

\* the roll the invocation that arrived in this step was called with
ArrivedRoll(r, pcNext, rollNext, deliveredNext) ==
    IF pcNext[r] = "done" THEN deliveredNext.roll ELSE rollNext[r]

\* C3: a call of fetchResultForRoll for a roll whose cache entry is live,
\* whatever value the entry holds, is resolved at once with that value and
\* fromCache = true, and touches neither the limiter nor the upstream.
C3_LiveEntryServedFromCache ==
    [][arrived' = arrived + 1 =>
         LET r == arrived'
             key == cacheKeyOf(ArrivedRoll(r, pc', roll', delivered'))
         IN cache[key] # undefined =>
              /\ pc'[r] = "done"
              /\ delivered'.req = r
              /\ delivered'.result.ok
              /\ delivered'.result.fromCache
              /\ delivered'.result.data = cache[key]
              /\ activeCount' = activeCount
              /\ queue' = queue
              /\ calls'[r] = 0]_vars

\* C4: a step that resolves a request with a failure leaves the whole cache
\* as it was, and an entry is only ever written by a step that resolves a
\* request for that key with a success carrying the written value; so an
\* invocation that fails has written nothing, and a call for a roll without
\* entry is a miss that goes to the limiter.
C4_FailureNotCached ==
    [][/\ (delivered'.req # 0 /\ ~delivered'.result.ok) => cache' = cache
       /\ \A key \in CacheKeys :
            (cache'[key] # cache[key] /\ cache'[key] # undefined) =>
               /\ delivered'.req # 0
               /\ delivered'.result.ok
               /\ ~delivered'.result.fromCache
               /\ cacheKeyOf(delivered'.roll) = key
               /\ delivered'.result.data = cache'[key]
       /\ (arrived' = arrived + 1 /\
           cache[cacheKeyOf(ArrivedRoll(arrived', pc', roll', delivered'))] = undefined)
             => pc'[arrived'] \in {"queued", "primary"}]_vars

\* a request for a roll has just failed and the roll has no cache entry
C4_Witness ==
    /\ delivered.req # 0
    /\ ~delivered.result.ok
    /\ delivered.result.error # undefined
    /\ cache[cacheKeyOf(delivered.roll)] = undefined
    /\ arrived < NumReq

\* C5: a step that resolves a cache-miss request for roll K with a success
\* writes the cache exactly at K's key, the value written being the value
\* returned, and no other step writes an entry.
C5_SuccessCachedOnce ==
    [][/\ (delivered'.req # 0 /\ delivered'.result.ok /\ ~delivered'.result.fromCache) =>
            cache' = [cache EXCEPT ![cacheKeyOf(delivered'.roll)] = delivered'.result.data]
       /\ ~(delivered'.req # 0 /\ delivered'.result.ok /\ ~delivered'.result.fromCache) =>
            \A key \in CacheKeys : cache'[key] \in {cache[key], undefined}]_vars

\* a request for a roll has just succeeded through the upstream and the
\* cache holds the value it returned
C5_Witness ==
    /\ delivered.req # 0
    /\ delivered.result.ok
    /\ ~delivered.result.fromCache
    /\ delivered.result.data = "<html>"
    /\ cache[cacheKeyOf(delivered.roll)] = delivered.result.data

\* the claims' classes of a failed transport attempt
TransientResponse(e) == e.response \in {NoResponse, 502, 503, 504}
TerminalStatus(e) == e.response # NoResponse /\ e.response \notin {502, 503, 504}
NonNetworkError(e) ==
    e.message # undefined /\ e.response = NoResponse /\ ~e.network

\* C6: with retry budget MAX_RETRIES, fetchWithRetries never issues more
\* than MAX_RETRIES + 1 transport attempts; it waits for a retry only while
\* fewer than MAX_RETRIES + 1 attempts have been made (never with a budget
\* of 0); when it fails with a transient error (no response, or 502, 503,
\* 504) it has made exactly MAX_RETRIES + 1 attempts and the failure
\* reported is that last error; a success is returned after at most
\* MAX_RETRIES + 1 attempts.
C6_RetryBudget ==
    /\ \A r \in Reqs :
         /\ calls[r] <= MAX_RETRIES + 1
         /\ pc[r] = "backoff" => calls[r] <= MAX_RETRIES /\ attempt[r] = calls[r]
         /\ pc[r] = "primary" => attempt[r] = calls[r] - 1
         /\ (pc[r] = "fallback" /\ TransientResponse(err[r])) =>
               calls[r] = MAX_RETRIES + 1
    /\ delivered.via = "direct" =>
         /\ delivered.calls \in 1..(MAX_RETRIES + 1)
         /\ (~delivered.result.ok /\ TransientResponse(delivered.err)) =>
               /\ delivered.calls = MAX_RETRIES + 1
               /\ delivered.result.error = delivered.err.message
         /\ delivered.result.ok => delivered.err = NoError

\* every one of the MAX_RETRIES + 1 > 1 attempts got a 503 and the fetcher
\* has failed with it
C6_Witness ==
    /\ MAX_RETRIES = MaxRetriesBound
    /\ MAX_RETRIES >= 1
    /\ delivered.via = "direct"
    /\ ~delivered.result.ok
    /\ delivered.err.response = 503
    /\ delivered.calls = MAX_RETRIES + 1

\* C7: an error response whose status is not 502, 503 or 504 is never
\* followed by a backoff wait or a further attempt: fetchWithRetries fails
\* with it whatever budget remains (the failure reported is that error).
C7_TerminalStatusNotRetried ==
    /\ \A r \in Reqs : pc[r] = "backoff" => ~TerminalStatus(err[r])
    /\ (delivered.via = "direct" /\ TerminalStatus(delivered.err)) =>
         /\ ~delivered.result.ok
         /\ delivered.result.error = delivered.err.message

\* a 404 on the first attempt, with budget left: one attempt was made
C7_Witness ==
    /\ MAX_RETRIES >= 1
    /\ delivered.via = "direct"
    /\ delivered.err.response = 404
    /\ delivered.calls = 1
    /\ ~delivered.result.ok

\* C8: an attempt that failed with a non-network error and no upstream
\* response is never retried (no backoff wait follows it).
C8_NonNetworkErrorNotRetried ==
    \A r \in Reqs : pc[r] = "backoff" => ~NonNetworkError(err[r])

\* C9: whenever playwrightFetch is running for a request, the direct fetch
\* of that request has made MAX_RETRIES + 1 attempts.
C9_FallbackOnlyAfterExhaustion ==
    \A r \in Reqs : pc[r] = "fallback" => calls[r] = MAX_RETRIES + 1

\* C10: a request resolved by the fallback after the direct fetch failed
\* (in particular after it exhausted its retries) is a success carrying the
\* page content playwrightFetch produced and the fallback marker header,
\* with fromCache = false, whenever playwrightFetch succeeded.
C10_FallbackSuccessMarked ==
    (delivered.via = "fallback" /\ delivered.pw.ok) =>
       /\ PLAYWRIGHT_FALLBACK
       /\ delivered.err # NoError
       /\ delivered.result.ok
       /\ ~delivered.result.fromCache
       /\ delivered.result.data = delivered.pw.data
       /\ delivered.result.data \in PwBodies
       /\ "x-playwright-fallback" \in delivered.result.headers

\* the direct fetch exhausted its retries on transient errors and the
\* fallback then succeeded
C10_Witness ==
    /\ delivered.via = "fallback"
    /\ MAX_RETRIES >= 1
    /\ delivered.calls = MAX_RETRIES + 1
    /\ TransientResponse(delivered.err)
    /\ delivered.pw.ok
    /\ delivered.result.ok
    /\ "x-playwright-fallback" \in delivered.result.headers

\* C11: the reason of a failure is the error playwrightFetch rejected with
\* when the fallback is enabled (the direct fetch's error is dropped), and
\* the last error of the direct fetch when the fallback is disabled.
C11_FailureReason ==
    (delivered.req # 0 /\ ~delivered.result.ok) =>
       IF PLAYWRIGHT_FALLBACK
       THEN /\ delivered.via = "fallback"
            /\ ~delivered.pw.ok
            /\ delivered.err # NoError
            /\ delivered.result.error = delivered.pw.error.message
            /\ delivered.result.error # delivered.err.message
       ELSE /\ delivered.via = "direct"
            /\ delivered.err \in AxiosErrors
            /\ delivered.result.error = delivered.err.message

\* the direct fetch failed with a 503 and the fallback with a navigation
\* error: the failure carries the latter
C11_Witness ==
    /\ delivered.via = "fallback"
    /\ delivered.err.response = 503
    /\ delivered.pw.error = PwGotoError
    /\ delivered.result.error = PwGotoError.message

\* C12: playwrightFetch is started for a request at most once, only from a
\* failed direct fetch and only with the fallback enabled; once it runs the
\* request can only finish (no second run, no return to the direct fetch),
\* a finished request never runs again, and a request resolved from the
\* cache or by a direct success has not run it.
C12_FallbackAtMostOnce ==
    [][/\ \A r \in Reqs :
            /\ (pc'[r] = "fallback" /\ pc[r] # "fallback") =>
                  /\ PLAYWRIGHT_FALLBACK
                  /\ pc[r] = "primary"
                  /\ err'[r] \in AxiosErrors
            /\ pc[r] = "fallback" =>
                  /\ pc'[r] \in {"fallback", "done"}
                  /\ calls'[r] \in {calls[r], 0}
            /\ pc[r] = "done" => pc'[r] = "done"
       /\ delivered'.via = "cache" => pc[delivered'.req] = "idle"
       /\ delivered'.via = "direct" =>
            pc[delivered'.req] = "primary" /\ delivered'.pw = NoPwOutcome
       /\ delivered'.via = "fallback" =>
            pc[delivered'.req] = "fallback" /\ delivered'.pw \in PlaywrightOutcomes]_vars

\* the fallback failed for a request: the request is finished, not retried
C12_Witness ==
    /\ delivered.via = "fallback"
    /\ delivered.pw.error = PwLaunchError
    /\ pc[delivered.req] = "done"
    /\ calls[delivered.req] = 0

\* C13: the limiter admits in arrival order: when a request is admitted, no
\* request that asked for admission before it (request ids count arrivals)
\* is still waiting, and the waiting requests stand in arrival order.
C13_AdmissionFIFO ==
    [][/\ \A b \in Reqs :
            (pc[b] \in {"idle", "queued"} /\ pc'[b] \in {"primary", "backoff", "fallback"}) =>
               \A a \in Reqs : a < b => pc'[a] # "queued"
       /\ \A i, j \in 1..Len(queue') : i < j => queue'[i] < queue'[j]
       /\ \A a \in Reqs : pc'[a] = "queued" <=> \E i \in 1..Len(queue') : queue'[i] = a]_vars

\* the first request holds the only slot and the two later ones wait
C13_Witness ==
    /\ MAX_CONCURRENT = 1
    /\ pc[1] \in {"primary", "backoff", "fallback"}
    /\ queue = <<2, 3>>


\* C14: the wait before retry n is at least base * 2^(n-1) and at most
\* base * 2^(n-1) + 200 ms, the upper end included, whatever Math.random()
\* returned.
C14_WaitBounds ==
    sleep.attempt >= 1 =>
       /\ sleep.wait >= sleep.base * 2^(sleep.attempt - 1)
       /\ sleep.wait <= sleep.base * 2^(sleep.attempt - 1) + 200

\* C14 as stated: the wait stays strictly below base * 2^(n-1) + 200 ms
C14_WaitBelowUpperEnd ==
    sleep.attempt >= 1 =>
       /\ sleep.wait >= sleep.base * 2^(sleep.attempt - 1)
       /\ sleep.wait < sleep.base * 2^(sleep.attempt - 1) + 200

\* the wait before the second retry with the default base and
\* Math.random() close to 1: 600 + 200
C14_Witness ==
    /\ sleep.base = 300
    /\ sleep.attempt = 2
    /\ sleep.wait = 800

\* C15: once the client of a request has closed the connection the request
\* issues no further axios.get (neither its first one on admission nor a
\* retry) and does not start playwrightFetch.
C15_CancellationPropagates ==
    [][\A r \in cancelled :
          /\ calls'[r] <= calls[r]
          /\ pc'[r] = "fallback" => pc[r] = "fallback"]_vars

\* C16: the promise of fetchResultForRoll is always resolved with a value,
\* never left without one by an error escaping: a failed direct fetch
\* without fallback and a failed fallback give {ok: false, error}, and a
\* value is either a success (data, no error) or a failure (error, no data).
C16_FailuresReturnedAsValues ==
    delivered.req # 0 =>
       /\ delivered.result # NoResult
       /\ delivered.result.ok =>
             delivered.result.data # undefined /\ delivered.result.error = undefined
       /\ ~delivered.result.ok =>
             /\ delivered.result.error # undefined
             /\ delivered.result.data = undefined
             /\ ~delivered.result.fromCache
       /\ (delivered.via = "direct" /\ delivered.err # NoError) =>
             delivered.result = Failure(delivered.err)
       /\ (delivered.via = "fallback" /\ ~delivered.pw.ok) =>
             delivered.result = Failure(delivered.pw.error)

\* browser.close() threw in the finally block of playwrightFetch after the
\* page had been read: the rejection comes back as a failure value
C16_Witness ==
    /\ delivered.via = "fallback"
    /\ delivered.pw.error = PwCloseError
    /\ delivered.result = Failure(PwCloseError)

\* the step leading here resolved a cache-miss request with a success and
\* gave its slot back
FreedBySuccess == delivered.req # 0 /\ delivered.result.ok /\ ~delivered.result.fromCache

\* the cache holds what that request fetched
WrittenWhenFreed ==
    FreedBySuccess => cache[cacheKeyOf(delivered.roll)] = delivered.result.data

\* C17: when a successful cache-miss request gives its slot back (and the
\* head of the queue is started) the cache already holds the value it
\* fetched for its key, and a call of fetchResultForRoll for the same roll
\* that begins right then is a cache hit returning that value.
C17_WriteBeforeRelease ==
    [][/\ WrittenWhenFreed'
       /\ (FreedBySuccess /\ arrived' = arrived + 1
            /\ ArrivedRoll(arrived', pc', roll', delivered') = delivered.roll) =>
             /\ delivered'.req = arrived'
             /\ delivered'.via = "cache"
             /\ delivered'.result.data = delivered.result.data]_vars

\* C18: every successful cache-miss request writes its key, and the cache
\* entry of a key always holds the value of the latest cache.set for it
\* (none once the entry has expired), also when requests for the same roll
\* overlap and replace each other's entries: the last write wins.
C18_LastWriterWins ==
    /\ FreedBySuccess => lastWrite[cacheKeyOf(delivered.roll)] = delivered.result.data
    /\ \A key \in CacheKeys : cache[key] = lastWrite[key]

\* a request that missed the cache has replaced the live entry "<html>" an
\* overlapping request for the same roll had written while it was running
C18_Witness ==
    /\ FreedBySuccess
    /\ delivered.prev = "<html>"
    /\ delivered.result.data # "<html>"
    /\ cache[cacheKeyOf(delivered.roll)] = delivered.result.data

\* the phases of a request in the order the claim gives them: not begun,
\* waiting for admission, direct fetch (attempts and backoff waits),
\* fallback, done
PhaseRank(p) ==
    CASE p = "idle" -> 0
      [] p = "queued" -> 1
      [] p \in {"primary", "backoff"} -> 2
      [] p = "fallback" -> 3
      [] p = "done" -> 4

\* C19: under fair scheduling every request that has begun is eventually
\* done, a waiting one included, and no request ever steps back to a phase
\* it has left.
C19_EveryRequestDone ==
    /\ \A r \in Reqs : (pc[r] \in {"queued", "primary", "backoff", "fallback"}) ~> (pc[r] = "done")
    /\ [][\A r \in Reqs : PhaseRank(pc'[r]) >= PhaseRank(pc[r])]_vars

\* a request that waited for admission, used its whole retry budget and
\* went through the fallback is done and the limiter is idle
C19_Witness ==
    /\ MAX_CONCURRENT = 1
    /\ MAX_RETRIES = MaxRetriesBound
    /\ delivered.req = 2
    /\ delivered.via = "fallback"
    /\ delivered.calls = MaxRetriesBound + 1
    /\ pc[1] = "done"
    /\ activeCount = 0

\* C20: the cache is read once per request, on arrival: only an arriving
\* request is resolved from the cache, a request that missed and waited
\* starts its direct fetch when admitted whatever the cache holds by then,
\* and every request that missed is resolved after a fetch sequence of its
\* own (at least one axios.get), so m overlapping misses for one roll make
\* m fetch sequences.
C20_CacheReadOnceNoCoalescing ==
    [][/\ \A r \in Reqs :
            /\ pc[r] = "queued" => pc'[r] \in {"queued", "primary"}
            /\ (pc[r] \in {"idle", "queued"} /\ pc'[r] = "primary") =>
                  calls'[r] = 1 /\ attempt'[r] = 0
            /\ (pc[r] # "idle" /\ delivered'.req = r) =>
                  /\ delivered'.via \in {"direct", "fallback"}
                  /\ ~delivered'.result.fromCache
                  /\ delivered'.calls >= 1
       /\ delivered'.via = "cache" =>
            /\ delivered'.req = arrived'
            /\ arrived' = arrived + 1
            /\ pc[delivered'.req] = "idle"]_vars

\* with one slot, a request that missed and waited is in its direct fetch
\* although the request before it has cached a page for the same roll
C20_Witness ==
    /\ MAX_CONCURRENT = 1
    /\ \E r \in Reqs :
          /\ pc[r] = "primary"
          /\ calls[r] = 1
          /\ cache[cacheKeyOf(roll[r])] = "<html>"
=============================================================================
